---- MODULE Spec2Model ----
(***************************************************************************)
(* Verification model of wetterdienst's DWD road-weather provider          *)
(* (wetterdienst/provider/dwd/road_weather/api.py) and of the process-wide *)
(* client header touched by the NWS observation provider                   *)
(* (wetterdienst/provider/nws/observation/api.py).                         *)
(*                                                                         *)
(* Three state machines share the variables:                               *)
(*   Spec     a DwdRoadWeatherObservationValues object and the collections *)
(*            made on it (by rank, by station name, by station group);     *)
(*   SpecAll  DwdRoadWeatherObservationRequest._all applied to a listing;  *)
(*   SpecNet  module loading and remote fetches sharing                    *)
(*            FSSPEC_CLIENT_KWARGS["headers"].                             *)
(*                                                                         *)
(* api.py line 74 re-declares DwdRoadWeatherObservationPeriod with the     *)
(* single member HISTORICAL while lines 88 and 178 name LATEST; the model  *)
(* keeps both members, as the comparison in line 178 intends.              *)
(***************************************************************************)
EXTENDS Integers, Sequences, FiniteSets, TLC

VARIABLES
    metaindex,      \* self.metaindex: the station table of the values object
    resolved,       \* history: self.metaindex right after __init__
    period,         \* self.period
    lastCall,       \* the collection that ran last, with its arguments
    required,       \* required_station_groups of that collection
    ops,            \* remote operations that collection performed, in order
    outcome,        \* "none" | "returned" | "raised"
    error,          \* the exception raised, "" when none
    data,           \* the rows it returned
    groupOk,        \* per group: would the remote have served it in that call
    listing,        \* SpecAll: the spreadsheet rows read by _all
    allResult,      \* SpecAll: what _all returned
    clientHeaders,  \* SpecNet: FSSPEC_CLIENT_KWARGS["headers"]
    loaded,         \* SpecNet: provider modules imported so far
    fetchLog        \* SpecNet: header sent by each remote fetch, in order

valueVars == <<metaindex, resolved, period, lastCall, required, ops, outcome,
               error, data, groupOk>>
allVars == <<listing, allResult>>
netVars == <<clientHeaders, loaded, fetchLog>>
vars == <<valueVars, allVars, netVars>>

----------------------------------------------------------------------------
(* Bounds of the model *)

NumStations == 4
MaxCoord == 1
MaxRank == 3
MaxFiles == 2

----------------------------------------------------------------------------
(* The station world *)

GroupCycle == <<"AA", "BB", "AA", "XX">>

\* The station published on the remote side under number i.
Station(i) ==
    [id |-> i,
     name |-> ((i - 1) \div 2) + 1,
     lat |-> i % 3,
     lon |-> (i \div 2) % 3,
     group |-> GroupCycle[((i - 1) % 4) + 1]]

StationNumbers == 1..NumStations
DataGroups == {"AA", "BB"}
Periods == {"LATEST", "HISTORICAL"}
StationNames == {Station(i).name : i \in StationNumbers}

RECURSIVE SelectSeq2(_, _)
\* s restricted to the elements whose position is in keep, order kept.
SelectSeq2(s, keep) ==
    IF s = << >> THEN << >>
    ELSE LET n == Len(s)
             front == SelectSeq2(SubSeq(s, 1, n - 1), keep)
         IN IF n \in keep THEN Append(front, s[n]) ELSE front

\* create_meta_index_for_road_weather(): some listing of published stations.
MetaIndexOf(members) ==
    SelectSeq2([i \in StationNumbers |-> Station(i)], members)

\* __init__: stations of group "XX" are removed from the meta index.
DropGroupXX(index) == SelectSeq(index, LAMBDA s : s.group # "XX")

Ids(index) == {index[k].id : k \in 1..Len(index)}

----------------------------------------------------------------------------
(* Nearest neighbours *)

\* Distance of a station from the target point on the model's grid.
Distance(s, lat, lon) ==
    (s.lat - lat) * (s.lat - lat) + (s.lon - lon) * (s.lon - lon)

\* s comes before t in the resolver's order: nearer first, equal distances
\* by station identifier ascending.
Nearer(s, t, lat, lon) ==
    \/ Distance(s, lat, lon) < Distance(t, lat, lon)
    \/ /\ Distance(s, lat, lon) = Distance(t, lat, lon)
       /\ s.id < t.id

\* Position in index of the station that comes first among positions left.
NearestPosition(index, left, lat, lon) ==
    CHOOSE k \in left :
        \A j \in left \ {k} : Nearer(index[k], index[j], lat, lon)

RECURSIVE NearestPositions(_, _, _, _, _)
\* The positions of the rank nearest stations among left, nearest first.
NearestPositions(index, left, lat, lon, rank) ==
    IF rank = 0 \/ left = {} THEN << >>
    ELSE LET k == NearestPosition(index, left, lat, lon)
         IN <<k>> \o NearestPositions(index, left \ {k}, lat, lon, rank - 1)

\* derive_nearest_neighbours(latitudes, longitudes, coordinates, rank):
\* indices_nearest_neighbours.
derive_nearest_neighbours(index, lat, lon, rank) ==
    NearestPositions(index, 1..Len(index), lat, lon, rank)

\* self.metaindex.iloc[indices_nearest_neighbours.ravel(), :]
ILoc(index, positions) == [k \in 1..Len(positions) |-> index[positions[k]]]

\* self.metaindex.loc[self.metaindex[NAME] == station_name, :]
LocByName(index, station_name) ==
    SelectSeq(index, LAMBDA s : s.name = station_name)

----------------------------------------------------------------------------
(* Station groups and their remote files *)

RECURSIVE Unique(_)
\* Series.unique() / drop_duplicates(): first occurrences, order kept.
Unique(s) ==
    IF s = << >> THEN << >>
    ELSE LET front == Unique(SubSeq(s, 1, Len(s) - 1))
             x == s[Len(s)]
         IN IF \E k \in 1..Len(front) : front[k] = x THEN front
            ELSE Append(front, x)

\* A mis-written group list: one entry per selected station.
RequiredGroupsPerStation(index) == [k \in 1..Len(index) |-> index[k].group]

\* required_station_groups: the distinct groups of the narrowed meta index.
RequiredGroups(index) == Unique([k \in 1..Len(index) |-> index[k].group])

\* What the remote side does for one group during one call: the number of
\* files its index lists, and the step that fails, if any.
Faults == {"none", "list", "download", "parse"}
Remote == [DataGroups -> [files : 0..MaxFiles, fault : Faults]]

\* Whether the remote serves the group's latest file without failure.
Served(env, g) == env[g].fault = "none" /\ env[g].files > 0

RECURSIVE GroupRows(_, _)
\* parse_dwd_road_weather_data: the rows of a group's file, one per station
\* the remote publishes in that group, whether or not the meta index has it.
GroupRows(g, n) ==
    IF n = 0 THEN << >>
    ELSE LET front == GroupRows(g, n - 1)
         IN IF Station(n).group = g
            THEN Append(front, [shortStationName |-> n, group |-> g])
            ELSE front

\* remote_files.iloc[-1, 0]: the last entry of the file index, whose entries
\* are numbered 1..files in ascending time.
LatestFile(files) == files

\* _collect_data_by_station_group: the remote operations, then the rows or
\* the exception.
CollectGroup(g, per, env) ==
    LET listed == <<[op |-> "list", group |-> g, file |-> env[g].files]>>
        fetched == Append(listed, [op |-> "download", group |-> g,
                                   file |-> LatestFile(env[g].files)])
    IN IF env[g].fault = "list"
       THEN [ops |-> listed, error |-> "RemoteUnavailable", rows |-> << >>]
       ELSE IF per # "LATEST"
       THEN [ops |-> listed, error |-> "NotImplementedError", rows |-> << >>]
       ELSE IF env[g].files = 0
       THEN [ops |-> listed, error |-> "IndexError", rows |-> << >>]
       ELSE IF env[g].fault = "download"
       THEN [ops |-> fetched, error |-> "RemoteUnavailable", rows |-> << >>]
       ELSE IF env[g].fault = "parse"
       THEN [ops |-> fetched, error |-> "ParseError", rows |-> << >>]
       ELSE [ops |-> fetched, error |-> "", rows |-> GroupRows(g, NumStations)]

RECURSIVE CollectGroups(_, _, _)
\* The list comprehension over required_station_groups: groups are collected
\* in order and the first exception leaves the comprehension.
CollectGroups(groups, per, env) ==
    IF groups = << >> THEN [ops |-> << >>, error |-> "", rows |-> << >>]
    ELSE LET one == CollectGroup(Head(groups), per, env)
             rest == CollectGroups(Tail(groups), per, env)
         IN IF one.error # "" THEN one
            ELSE [ops |-> one.ops \o rest.ops,
                  error |-> rest.error,
                  rows |-> IF rest.error # "" THEN << >>
                           ELSE one.rows \o rest.rows]

\* A mis-written final selection: every parsed row is returned.
AllRows(rows, index) == rows

\* road_weather_station_data[...isin(self.metaindex[STATION_ID].tolist())]
SelectedRows(rows, index) ==
    SelectSeq(rows, LAMBDA r : r.shortStationName \in Ids(index))

\* pd.concat over the collected groups, then the final selection.
\* pd.concat of an empty list raises ValueError.
ConcatAndSelect(groups, index, per, env) ==
    LET got == CollectGroups(groups, per, env)
    IN IF groups = << >>
       THEN [ops |-> << >>, error |-> "ValueError", rows |-> << >>]
       ELSE IF got.error # "" THEN got
       ELSE [ops |-> got.ops, error |-> "",
             rows |-> SelectedRows(got.rows, index)]

----------------------------------------------------------------------------
(* The values object: DwdRoadWeatherObservationValues *)

NoCall == [kind |-> "none", lat |-> 0, lon |-> 0, rank |-> 0, name |-> 0,
           group |-> ""]

IdleValues ==
    /\ metaindex = << >>
    /\ resolved = << >>
    /\ period = "LATEST"
    /\ lastCall = NoCall
    /\ required = << >>
    /\ ops = << >>
    /\ outcome = "none"
    /\ error = ""
    /\ data = << >>
    /\ groupOk = [g \in DataGroups |-> TRUE]

IdleAll ==
    /\ listing = << >>
    /\ allResult = [status |-> "none", error |-> "", rows |-> << >>]

IdleNet ==
    /\ clientHeaders = [ua |-> "", ct |-> ""]
    /\ loaded = {}
    /\ fetchLog = << >>

\* __init__(period): the meta index is created and group "XX" removed.
Init ==
    /\ \E members \in SUBSET StationNumbers :
          /\ metaindex = DropGroupXX(MetaIndexOf(members))
          /\ resolved = DropGroupXX(MetaIndexOf(members))
    /\ period \in Periods
    /\ lastCall = NoCall
    /\ required = << >>
    /\ ops = << >>
    /\ outcome = "none"
    /\ error = ""
    /\ data = << >>
    /\ groupOk = [g \in DataGroups |-> TRUE]
    /\ IdleAll
    /\ IdleNet

\* No call is in progress on the values object.
Idle == outcome = "none"

\* The common tail of the two collections: the narrowed meta index is stored,
\* its groups are collected and the rows of its stations returned.
Finish(call, narrowed, env) ==
    /\ Idle
    /\ \E got \in {ConcatAndSelect(RequiredGroups(narrowed), narrowed, period,
                                     env)} :
       /\ metaindex' = narrowed
       /\ lastCall' = call
       /\ required' = RequiredGroups(narrowed)
       /\ ops' = got.ops
       /\ outcome' = IF got.error = "" THEN "returned" ELSE "raised"
       /\ error' = got.error
       /\ data' = got.rows
       /\ groupOk' = [g \in DataGroups |-> Served(env, g)]
       /\ UNCHANGED <<resolved, period>>

\* _collect_data_by_rank(latitude, longitude, rank)
CollectByRank(lat, lon, rank, env) ==
    /\ Idle
    /\ LET call == [NoCall EXCEPT !.kind = "rank", !.lat = lat, !.lon = lon,
                                  !.rank = rank]
       IN IF rank > Len(metaindex)
          THEN /\ lastCall' = call
               /\ required' = << >>
               /\ ops' = << >>
               /\ outcome' = "raised"
               /\ error' = "InvalidRank"
               /\ data' = << >>
               /\ groupOk' = [g \in DataGroups |-> Served(env, g)]
               /\ UNCHANGED <<metaindex, resolved, period>>
          ELSE Finish(call,
                      ILoc(metaindex,
                           derive_nearest_neighbours(metaindex, lat, lon, rank)),
                      env)

\* _collect_data_by_station_name(station_name)
CollectByStationName(station_name, env) ==
    Finish([NoCall EXCEPT !.kind = "name", !.name = station_name],
           LocByName(metaindex, station_name), env)

\* _collect_data_by_station_group(road_weather_station_group), called alone
CollectByStationGroup(g, env) ==
    /\ Idle
    /\ \E got \in {CollectGroup(g, period, env)} :
       /\ lastCall' = [NoCall EXCEPT !.kind = "group", !.group = g]
       /\ required' = <<g>>
       /\ ops' = got.ops
       /\ outcome' = IF got.error = "" THEN "returned" ELSE "raised"
       /\ error' = got.error
       /\ data' = got.rows
       /\ groupOk' = [h \in DataGroups |-> Served(env, h)]
       /\ UNCHANGED <<metaindex, resolved, period>>

\* The finished call's frame or exception passes to the caller; only the
\* object's attributes outlive the call.
Return ==
    /\ outcome # "none"
    /\ lastCall' = NoCall
    /\ required' = << >>
    /\ ops' = << >>
    /\ outcome' = "none"
    /\ error' = ""
    /\ data' = << >>
    /\ groupOk' = [g \in DataGroups |-> TRUE]
    /\ UNCHANGED <<metaindex, resolved, period>>

Next ==
    \/ /\ Idle
       /\ \E lat \in 0..MaxCoord, lon \in 0..MaxCoord, rank \in 1..MaxRank,
             env \in Remote :
             CollectByRank(lat, lon, rank, env)
       /\ UNCHANGED <<allVars, netVars>>
    \/ /\ Idle
       /\ \E station_name \in StationNames, env \in Remote :
             CollectByStationName(station_name, env)
       /\ UNCHANGED <<allVars, netVars>>
    \/ /\ Idle
       /\ \E g \in DataGroups, env \in Remote :
             CollectByStationGroup(g, env)
       /\ UNCHANGED <<allVars, netVars>>
    \/ Return /\ UNCHANGED <<allVars, netVars>>

Spec == Init /\ [][Next]_vars

----------------------------------------------------------------------------
(* The station listing: DwdRoadWeatherObservationRequest._all *)

MaxRows == 3

\* A cell of a coordinate column: missing, text with a decimal comma
\* ("w,f"), or a number w.f.
Missing == [t |-> "nan", w |-> 0, f |-> 0]
LatitudeCells == {Missing, [t |-> "str", w |-> 52, f |-> 5]}
LongitudeCells == {Missing, [t |-> "num", w |-> 13, f |-> 4]}

\* A cell of the group column ("GDS-Verzeichnis"): an integer or a text.
GroupCells == [t : {"int"}, v : 0..2] \cup {[t |-> "str", v |-> 1]}

\* A row of the spreadsheet; outOfService: the column
\* "ausser Betrieb (gemeldet)" holds a value.
ListingRows ==
    [outOfService : BOOLEAN, group : GroupCells,
     lat : LatitudeCells, lon : LongitudeCells]

\* bool & int, element by element: True is 1, False is 0.
BitAnd(b, n) == IF b THEN n % 2 ELSE 0

\* A mis-written row filter: the group column is not consulted.
KeepInService(row) == ~row.outOfService

\* df[HAS_FILE].isna() & df[STATION_GROUP] != 0: & binds tighter than !=,
\* the row is kept when (isna & group) differs from 0.
KeepRow(row) == BitAnd(~row.outOfService, row.group.v) # 0

\* .replace(",", ".", regex=True).astype(float): "w,f" becomes w.f, a missing
\* cell stays missing.
ToFloat(cell) == IF cell.t = "str" THEN [cell EXCEPT !.t = "num"] ELSE cell

CoerceCoordinates(row) ==
    [row EXCEPT !.lat = ToFloat(row.lat), !.lon = ToFloat(row.lon)]

\* _all(): with a text in the group column the element-wise & raises
\* TypeError; otherwise the kept rows are returned with float coordinates.
RequestAll ==
    /\ allResult.status = "none"
    /\ allResult' =
          IF \E k \in 1..Len(listing) : listing[k].group.t = "str"
          THEN [status |-> "raised", error |-> "TypeError", rows |-> << >>]
          ELSE [status |-> "returned", error |-> "",
                rows |-> LET kept == SelectSeq(listing, KeepRow)
                         IN [k \in 1..Len(kept) |-> CoerceCoordinates(kept[k])]]
    /\ UNCHANGED <<listing, valueVars, netVars>>

InitAll ==
    /\ \E n \in 0..MaxRows : listing \in [1..n -> ListingRows]
    /\ allResult = [status |-> "none", error |-> "", rows |-> << >>]
    /\ IdleValues
    /\ IdleNet

NextAll == RequestAll

SpecAll == InitAll /\ [][NextAll]_vars

----------------------------------------------------------------------------
(* The client header shared by every remote fetch *)

MaxFetches == 5

Providers == {"dwd_road_weather", "nws"}

\* FSSPEC_CLIENT_KWARGS["headers"] as wetterdienst.util.network leaves it.
InitialHeaders == {[ua |-> "", ct |-> ""], [ua |-> "wetterdienst", ct |-> ""]}

\* The headers the NWS observation module assigns when it is loaded.
NwsHeaders == [ua |-> "wetterdienst/gutzemann@gmail.com",
               ct |-> "application/json"]

\* import of a provider module: the module body runs once per process.
Import(p) ==
    /\ p \notin loaded
    /\ loaded' = loaded \cup {p}
    /\ clientHeaders' = IF p = "nws" THEN NwsHeaders ELSE clientHeaders
    /\ UNCHANGED <<fetchLog, valueVars, allVars>>

\* download_file: the request carries the process-wide client headers.
SentHeaders == clientHeaders

\* download_file(self._endpoint, CacheExpiry.METAINDEX) in a provider's _all
Fetch(p) ==
    /\ p \in loaded
    /\ Len(fetchLog) < MaxFetches
    /\ fetchLog' = Append(fetchLog, [provider |-> p, headers |-> SentHeaders])
    /\ UNCHANGED <<clientHeaders, loaded, valueVars, allVars>>

InitNet ==
    /\ clientHeaders \in InitialHeaders
    /\ loaded = {}
    /\ fetchLog = << >>
    /\ IdleValues
    /\ IdleAll

NextNet ==
    \/ \E p \in Providers : Import(p)
    \/ \E p \in Providers : Fetch(p)

SpecNet == InitNet /\ [][NextNet]_vars

----------------------------------------------------------------------------
(* Properties of the values object, checked under Spec *)

Collected == lastCall.kind \in {"rank", "name"}

GroupsOf(index) == {index[k].group : k \in 1..Len(index)}

Events(kind) == {k \in 1..Len(ops) : ops[k].op = kind}

\* C1: the station index is read-only once resolved: after any sequence of
\* collections it holds exactly the stations it held after construction.
C1_MetaIndexReadOnly == Ids(metaindex) = Ids(resolved)

\* C2: in a query over several station groups (supported period), the
\* failure of one group does not abort the query: the query returns, with
\* the rows of the selected stations of every group the remote served.
C2_GroupFailureIsolated ==
    (/\ Collected
     /\ period = "LATEST"
     /\ Len(required) >= 2
     /\ \E k \in 1..Len(required) : ~groupOk[required[k]])
    => /\ outcome = "returned"
       /\ \A k \in 1..Len(required) :
             groupOk[required[k]] =>
                \A j \in 1..NumStations :
                   (Station(j).group = required[k] /\ j \in Ids(metaindex))
                   => \E d \in 1..Len(data) : data[d].shortStationName = j

\* C3: with a period other than latest, collecting a station group fails
\* with the unsupported-combination error before any remote operation.
C3_UnsupportedPeriodFailsFirst ==
    (lastCall.kind # "none" /\ required # << >> /\ period # "LATEST")
    => (error = "NotImplementedError" /\ ops = << >>)

\* C4: a by-rank collection with 1 <= rank <= |resolved index| selects
\* exactly rank stations of the resolved index, the nearest ones to the
\* target, in order of non-decreasing distance.
C4_RankSelectsNearest ==
    (lastCall.kind = "rank" /\ lastCall.rank \in 1..Len(resolved))
    => /\ error # "InvalidRank"
       /\ Len(metaindex) = lastCall.rank
       /\ Cardinality(Ids(metaindex)) = lastCall.rank
       /\ Ids(metaindex) \subseteq Ids(resolved)
       /\ \A k \in 1..(Len(metaindex) - 1) :
             Distance(metaindex[k], lastCall.lat, lastCall.lon)
                <= Distance(metaindex[k + 1], lastCall.lat, lastCall.lon)
       /\ \A k \in 1..Len(metaindex), j \in 1..Len(resolved) :
             resolved[j].id \notin Ids(metaindex)
             => Distance(metaindex[k], lastCall.lat, lastCall.lon)
                   <= Distance(resolved[j], lastCall.lat, lastCall.lon)

\* C9: the rows a by-rank or by-station-name collection returns all carry
\* the identifier of a selected station, although whole group files are
\* parsed.
C9_OnlySelectedStations ==
    (Collected /\ outcome = "returned")
    => \A d \in 1..Len(data) : data[d].shortStationName \in Ids(metaindex)

\* A collection returned rows from a group file that also holds a station
\* outside the selection.
C9_Witness ==
    /\ Collected
    /\ outcome = "returned"
    /\ data # << >>
    /\ \E k \in Events("download"), j \in 1..NumStations :
          Station(j).group = ops[k].group /\ j \notin Ids(metaindex)

----------------------------------------------------------------------------
(* Properties of the station listing, checked under SpecAll *)

C6_CoordinatesPresent ==
    allResult.status = "returned"
    => \A k \in 1..Len(allResult.rows) :
          /\ allResult.rows[k].lat.t # "nan"
          /\ allResult.rows[k].lon.t # "nan"

----------------------------------------------------------------------------
(* Properties of the client header, checked under SpecNet *)

\* C7: every remote fetch carries the same client identifier header,
\* whichever provider modules were loaded before it.
C7_StableClientHeader ==
    \A i, j \in 1..Len(fetchLog) : fetchLog[i].headers = fetchLog[j].headers

====
